---- MODULE Spec2Model ----
(***************************************************************************)
(* Model of the namespace code generator                                   *)
(*   src/atproto/codegen/namespaces/generator.py                           *)
(*                                                                         *)
(* Text is modelled structurally: a name is the sequence of its code       *)
(* points (so that Python's string order and str.capitalize() can be       *)
(* computed), an emitted line is a record of the pieces the f-string       *)
(* interpolates.  Python values are records tagged with their class in     *)
(* the field cls; None is the record PyNone.  Functions imported from      *)
(* modules outside generator.py and used only to build a name              *)
(* (get_params_model_name, convert_camel_case_to_snake_case, ...) are kept *)
(* symbolic: the record [fn |-> f, of |-> x] stands for the text f(x).     *)
(***************************************************************************)
EXTENDS Integers, Sequences, FiniteSets, TLC

VARIABLES
    method_info,    \* the MethodInfo handed to the method emitter
    m_sync,         \* the calling convention handed to the method emitter
    signature,      \* text returned by _get_namespace_method_signature
    body,           \* text returned by _get_namespace_method_body
    m_pc            \* position inside the loop body of lines 220-222

mvars == <<method_info, m_sync, signature, body, m_pc>>

VARIABLES
    pc,             \* position of generate_namespaces (lines 258-271)
    lexicons,       \* the lexicon collection build_namespaces read
    namespace_tree, \* result of build_namespaces (line 259)
    sync,           \* loop variable of line 261
    output,         \* generated_code_lines_buffer (line 262)
    files,          \* the two output files under _NAMESPACES_OUTPUT_DIR
    steps,          \* history: the calls of generate_namespaces that have returned
    error           \* the exception that ended the run, if any

dvars == <<pc, lexicons, namespace_tree, sync, output, files, steps, error>>

vars == <<method_info, m_sync, signature, body, m_pc,
          pc, lexicons, namespace_tree, sync, output, files, steps, error>>

\* ------------------------------------------------------------------------
\* Python values

PyNone == [cls |-> "None"]

PyList(items) == [cls |-> "list", items |-> items]

\* a variable no text has been assigned to yet
NoText == [cls |-> "unset"]

\* bool(x) for the objects the generator tests: None is falsy, a list is
\* falsy when empty, every other object (a lexicon model instance) is truthy
Truthy(x) ==
    IF x.cls = "None" THEN FALSE
    ELSE IF x.cls = "list" THEN Len(x.items) > 0
    ELSE TRUE

Range(s) == {s[i] : i \in DOMAIN s}

\* ------------------------------------------------------------------------
\* Names: sequences of code points

id_ == <<105, 100>>                                   \* "id"
com == <<99, 111, 109>>                               \* "com"
bsky == <<98, 115, 107, 121>>                         \* "bsky"
repo == <<114, 101, 112, 111>>                        \* "repo"
admin == <<97, 100, 109, 105, 110>>                   \* "admin"
getRepo == <<103, 101, 116, 82, 101, 112, 111>>       \* "getRepo"
getBlob == <<103, 101, 116, 66, 108, 111, 98>>        \* "getBlob"
Mute == <<77, 117, 116, 101>>                         \* "Mute"

\* ------------------------------------------------------------------------
\* Lexicon definitions (the read-only input of the emitter)

Requireds == {PyNone, PyList(<<>>), PyList(<<id_>>)}

LexObjects == {[cls |-> "LexObject", required |-> r] : r \in Requireds}

LexRefs == {[cls |-> "LexRef"]}

ParameterShapes == {PyNone} \cup {[cls |-> "LexXrpcParameters", required |-> r] : r \in Requireds}

Schemas == {PyNone} \cup LexObjects \cup LexRefs

Inputs == {PyNone} \cup {[cls |-> "LexXrpcBody", schema |-> s] : s \in Schemas}

Outputs == {PyNone} \cup {[cls |-> "LexXrpcBody", schema |-> s] : s \in Schemas}

Queries ==
    {[cls |-> "LexXrpcQuery", type |-> "query", parameters |-> p, input |-> PyNone, output |-> o] :
        p \in ParameterShapes, o \in Outputs}

Procedures ==
    {[cls |-> "LexXrpcProcedure", type |-> "procedure", parameters |-> p, input |-> i, output |-> o] :
        p \in ParameterShapes, i \in Inputs, o \in Outputs}

Definitions == Queries \cup Procedures

MethodInfo(nsid, definition) ==
    [cls |-> "MethodInfo", nsid |-> nsid, name |-> nsid[Len(nsid)], definition |-> definition]

RecordInfo(nsid) ==
    [cls |-> "RecordInfo", nsid |-> nsid, name |-> nsid[Len(nsid)]]

MethodInfos == {MethodInfo(<<com, repo, getRepo>>, d) : d \in Definitions}

\* ------------------------------------------------------------------------
\* Method emitter

\* the exception of lines 173-179: is_optional_arg (line 173) is applied to
\* the schema before the isinstance test, so a schema class without a
\* `required` attribute raises there, any other one at line 179; either
\* way the call does not return
Raise == [cls |-> "Raise"]

IsRaise(x) == x.cls = "Raise"

\* mutant: an empty `required` list is taken for required fields
is_optional_arg_NoneOnly(lex_obj) ==
    lex_obj.required.cls = "None"

is_optional_arg(lex_obj) ==
    lex_obj.required.cls = "None" \/ Len(lex_obj.required.items) = 0

_get_namespace_method_signature_arg(name, method_name, get_model_name, optional, alias) ==
    LET model_name == [fn |-> get_model_name, of |-> method_name] IN
    IF alias
    THEN [name |-> name,
          annotation |-> [model |-> model_name, union |-> FALSE, optional |-> FALSE],
          default |-> ""]
    ELSE [name |-> name,
          annotation |-> [model |-> model_name, union |-> TRUE, optional |-> optional],
          default |-> IF optional THEN " = None" ELSE ""]

_get_namespace_method_signature_args_names(mi) ==
    {"self"}
    \cup (IF Truthy(mi.definition.parameters) THEN {"params"} ELSE {})
    \cup (IF mi.definition.type = "procedure" /\ Truthy(mi.definition.input)
          THEN IF Truthy(mi.definition.input.schema) THEN {"data_schema"} ELSE {"data_alias"}
          ELSE {})

SelfArg == [name |-> "self", annotation |-> [model |-> PyNone, union |-> FALSE, optional |-> FALSE], default |-> ""]

\* the entries _add_arg receives, in call order, each with its optional flag;
\* Raise when the input schema is present and is not a LexObject
SignatureAddedArgs(mi) ==
    LET name == mi.name
        def == mi.definition
        from_params ==
            IF Truthy(def.parameters)
            THEN LET is_optional == is_optional_arg(def.parameters) IN
                 <<[arg |-> _get_namespace_method_signature_arg("params", name, "get_params_model_name", is_optional, FALSE),
                    optional |-> is_optional]>>
            ELSE <<>>
    IN  IF def.type = "procedure" /\ Truthy(def.input)
        THEN LET schema == def.input.schema IN
             IF Truthy(schema)
             THEN IF schema.cls = "LexObject"
                  THEN LET is_optional == is_optional_arg(schema) IN
                       [cls |-> "list",
                        items |-> Append(from_params,
                            [arg |-> _get_namespace_method_signature_arg("data", name, "get_data_model_name", is_optional, FALSE),
                             optional |-> is_optional])]
                  ELSE Raise
             ELSE [cls |-> "list",
                   items |-> Append(from_params,
                       [arg |-> _get_namespace_method_signature_arg("data", name, "get_data_model_name", FALSE, TRUE),
                        optional |-> FALSE])]
        ELSE [cls |-> "list", items |-> from_params]

\* mutant: the arguments stay in the order they were detected
_get_namespace_method_signature_args_DetectionOrder(mi) ==
    LET added == SignatureAddedArgs(mi) IN
    IF IsRaise(added) THEN Raise
    ELSE [cls |-> "args", args |-> <<SelfArg>> \o [i \in DOMAIN added.items |-> added.items[i].arg]]

_get_namespace_method_signature_args(mi) ==
    LET added == SignatureAddedArgs(mi) IN
    IF IsRaise(added) THEN Raise
    ELSE LET args == SelectSeq(added.items, LAMBDA e : ~e.optional)
             optional_args == SelectSeq(added.items, LAMBDA e : e.optional)
             pick(s) == [i \in DOMAIN s |-> s[i].arg]
         IN  [cls |-> "args", args |-> <<SelfArg>> \o pick(args) \o pick(optional_args)]

\* mutant: the suffix test looks at the output instead of its schema
_get_namespace_method_return_type_NoSuffix(mi) ==
    IF Truthy(mi.definition.output)
    THEN [base |-> "models.get_response_model_name", of |-> mi.name, suffix |-> ""]
    ELSE [base |-> "int", of |-> <<>>, suffix |-> ""]

_get_namespace_method_return_type(mi) ==
    LET def == mi.definition
        model_name_suffix ==
            IF Truthy(def.output) /\ def.output.schema.cls = "LexRef" THEN "Ref" ELSE ""
    IN  IF Truthy(def.output)
        THEN [base |-> "models.get_response_model_name", of |-> mi.name, suffix |-> model_name_suffix]
        ELSE [base |-> "int", of |-> <<>>, suffix |-> ""]

_get_namespace_method_signature(mi, sync_) ==
    LET args == _get_namespace_method_signature_args(mi) IN
    IF IsRaise(args) THEN Raise
    ELSE [cls |-> "signature",
          d |-> [fn |-> "get_sync_async_keywords.d", of |-> sync_],
          name |-> [fn |-> "convert_camel_case_to_snake_case", of |-> mi.name],
          args |-> args.args,
          return_type |-> _get_namespace_method_return_type(mi)]

_get_namespace_method_body(mi, sync_) ==
    LET presented_args == _get_namespace_method_signature_args_names(mi) \ {"self"}
        override(name, fn) == [name |-> name, model |-> [fn |-> fn, of |-> mi.name]]
        chosen ==
            IF "params" \in presented_args
            THEN [kw |-> <<"params=params">>, lines |-> <<override("params", "get_params_model_name")>>]
            ELSE IF "data_schema" \in presented_args
            THEN [kw |-> <<"data=data">>, lines |-> <<override("data", "get_data_model_name")>>]
            ELSE IF "data_alias" \in presented_args
            THEN [kw |-> <<"data=data">>, lines |-> <<>>]
            ELSE IF "options" \in presented_args
            THEN [kw |-> <<"options=options">>, lines |-> <<override("options", "get_options_model_name")>>]
            ELSE [kw |-> <<>>, lines |-> <<>>]
        method_name ==
            IF mi.definition.cls = "LexXrpcProcedure" THEN "invoke_procedure" ELSE "invoke_query"
    IN  [cls |-> "body",
         overrides |-> chosen.lines,
         c |-> [fn |-> "get_sync_async_keywords.c", of |-> sync_],
         method_name |-> method_name,
         nsid |-> mi.nsid,
         kwargs |-> chosen.kw,
         return_type |-> _get_namespace_method_return_type(mi)]

\* ------------------------------------------------------------------------
\* Python string order, str.capitalize() and list.sort

\* a < b for two str values: the first differing code point decides, a
\* proper prefix is smaller
StrLess(a, b) ==
    \E i \in 1..(Len(a) + 1) :
        /\ \A j \in 1..(i - 1) : j <= Len(b) /\ a[j] = b[j]
        /\ \/ i > Len(a) /\ i <= Len(b)
           \/ i <= Len(a) /\ i <= Len(b) /\ a[i] < b[i]

\* str.capitalize(): first character upper-cased, the others lower-cased
Capitalize(s) ==
    [i \in DOMAIN s |->
        IF i = 1
        THEN IF s[i] >= 97 /\ s[i] <= 122 THEN s[i] - 32 ELSE s[i]
        ELSE IF s[i] >= 65 /\ s[i] <= 90 THEN s[i] + 32 ELSE s[i]]

\* list.sort(key=...) on a list whose keys are `keys`: the positions of the
\* elements in ascending key order, equal keys keeping their order
SortedPositions(keys) ==
    LET before(j, i) == StrLess(keys[j], keys[i]) \/ (keys[j] = keys[i] /\ j < i)
        rank(i) == Cardinality({j \in DOMAIN keys : before(j, i)}) + 1
    IN  [r \in DOMAIN keys |-> CHOOSE i \in DOMAIN keys : rank(i) = r]

\* the list sorted by the field name of its elements
SortedByName(s) ==
    LET at == SortedPositions([i \in DOMAIN s |-> s[i].name]) IN
    [r \in DOMAIN s |-> s[at[r]]]

\* a new dict holding the items of d in ascending key order; d is left as it is
sort_dict_by_key(d) ==
    LET at == SortedPositions([i \in DOMAIN d.items |-> d.items[i].key]) IN
    [cls |-> "dict", items |-> [r \in DOMAIN d.items |-> d.items[at[r]]]]

\* dict.keys(), in the dict's iteration order
Keys(d) == [i \in DOMAIN d.items |-> d.items[i].key]

\* ------------------------------------------------------------------------
\* Namespace tree builder

EmptyDict == [cls |-> "dict", items |-> <<>>]

KeyIndex(d, k) ==
    IF \E i \in DOMAIN d.items : d.items[i].key = k
    THEN CHOOSE i \in DOMAIN d.items : d.items[i].key = k
    ELSE 0

\* the descriptor a lexicon contributes to its leaf list
Descriptor(lexicon) ==
    IF lexicon.definition.type = "record"
    THEN RecordInfo(lexicon.id)
    ELSE MethodInfo(lexicon.id, lexicon.definition)

\* walk/create the node of every segment of path, append info to the list
\* found at its end
RECURSIVE InsertAt(_, _, _)
InsertAt(node, path, info) ==
    IF path = <<>>
    THEN PyList(Append(node.items, info))
    ELSE LET k == Head(path)
             i == KeyIndex(node, k)
             fresh == IF Len(path) = 1 THEN PyList(<<>>) ELSE EmptyDict
         IN  IF i = 0
             THEN [node EXCEPT !.items = Append(@, [key |-> k, value |-> InsertAt(fresh, Tail(path), info)])]
             ELSE [node EXCEPT !.items[i].value = InsertAt(@, Tail(path), info)]

RECURSIVE BuildFrom(_, _)
BuildFrom(tree, lexs) ==
    IF lexs = <<>> THEN tree
    ELSE LET lexicon == Head(lexs)
             path == SubSeq(lexicon.id, 1, Len(lexicon.id) - 1)
         IN  BuildFrom(InsertAt(tree, path, Descriptor(lexicon)), Tail(lexs))

build_namespaces(lexs) == BuildFrom(EmptyDict, lexs)

\* ------------------------------------------------------------------------
\* Namespace class emitter

_NAMESPACE_SUFFIX == "Namespace"

_RECORD_SUFFIX == "RecordNamespace"

get_namespace_name(path_part) == [name |-> Capitalize(path_part), suffix |-> _NAMESPACE_SUFFIX]

get_record_name(path_part) == [name |-> Capitalize(path_part), suffix |-> _RECORD_SUFFIX]

_get_namespace_imports == [cls |-> "imports"]

_get_namespace_class_def(name) ==
    [cls |-> "class_def", decorator |-> "@dataclass", name |-> get_namespace_name(name), base |-> "NamespaceBase"]

\* mutant: the fields are declared in insertion order
_get_sub_namespaces_block_Unsorted(sub_namespaces) ==
    LET keys == Keys(sub_namespaces) IN
    [cls |-> "sub_namespaces_block",
     lines |-> [i \in DOMAIN keys |->
        [field |-> keys[i], type |-> get_namespace_name(keys[i]), value |-> "DefaultNamespace()"]]]

_get_sub_namespaces_block(sub_namespaces) ==
    LET keys == Keys(sort_dict_by_key(sub_namespaces)) IN
    [cls |-> "sub_namespaces_block",
     lines |-> [i \in DOMAIN keys |->
        [field |-> keys[i], type |-> get_namespace_name(keys[i]), value |-> "DefaultNamespace()"]]]

\* mutant: the loop stops one key early
_get_post_init_method_DropsLast(sub_namespaces) ==
    LET keys == Keys(sort_dict_by_key(sub_namespaces)) IN
    [cls |-> "post_init",
     lines |-> [i \in 1..(Len(keys) - 1) |->
        [target |-> "self", field |-> keys[i], value |-> get_namespace_name(keys[i]), arg |-> "self._client"]]]

_get_post_init_method(sub_namespaces) ==
    LET keys == Keys(sort_dict_by_key(sub_namespaces)) IN
    [cls |-> "post_init",
     lines |-> [i \in DOMAIN keys |->
        [target |-> "self", field |-> keys[i], value |-> get_namespace_name(keys[i]), arg |-> "self._client"]]]

_get_namespace_records_block(records_info) ==
    LET sorted == SortedByName(records_info) IN
    [cls |-> "records_block",
     lines |-> [i \in DOMAIN sorted |->
        [field |-> sorted[i].name, type |-> get_record_name(sorted[i].name), value |-> "DefaultNamespace()"]]]

\* lines 220-222 from the i-th sorted method on: the list `lines` after the
\* appends, or Raise as soon as one signature raises
RECURSIVE MethodLines(_, _, _, _)
MethodLines(methods_info, i, lines, sync_) ==
    IF i > Len(methods_info) THEN PyList(lines)
    ELSE LET sig == _get_namespace_method_signature(methods_info[i], sync_) IN
         IF IsRaise(sig) THEN Raise
         ELSE MethodLines(methods_info, i + 1,
                          lines \o <<sig, _get_namespace_method_body(methods_info[i], sync_)>>, sync_)

\* mutant: a method whose signature raises is left out
_get_namespace_methods_block_SkipMalformed(methods_info, sync_) ==
    LET sorted == SortedByName(methods_info)
        kept == SelectSeq(sorted, LAMBDA e : ~IsRaise(_get_namespace_method_signature(e, sync_)))
    IN  [cls |-> "methods_block", lines |-> MethodLines(kept, 1, <<>>, sync_).items]

\* mutant: the malformed schema is only rejected in the async pass
_get_namespace_methods_block_AsyncOnly(methods_info, sync_) ==
    LET sorted == SortedByName(methods_info)
        kept == SelectSeq(sorted, LAMBDA e : ~sync_ \/ ~IsRaise(_get_namespace_method_signature(e, sync_)))
        lines == MethodLines(kept, 1, <<>>, sync_)
    IN  IF IsRaise(lines) THEN Raise
        ELSE [cls |-> "methods_block", lines |-> lines.items]

_get_namespace_methods_block(methods_info, sync_) ==
    LET sorted == SortedByName(methods_info)
        lines == MethodLines(sorted, 1, <<>>, sync_)
    IN  IF IsRaise(lines) THEN Raise
        ELSE [cls |-> "methods_block", lines |-> lines.items]

\* the loop of line 238 from the i-th item of namespace_tree on: the list
\* `output` after the appends, or Raise
RECURSIVE GenerateItems(_, _, _, _)
GenerateItems(tree, i, out, sync_) ==
    IF i > Len(tree.items) THEN PyList(out)
    ELSE LET node_name == tree.items[i].key
             sub_node == tree.items[i].value
         IN  IF sub_node.cls = "dict"
             THEN LET out1 == out \o <<_get_namespace_class_def(node_name),
                                       _get_sub_namespaces_block(sub_node),
                                       _get_post_init_method(sub_node)>>
                      out2 == GenerateItems(sub_node, 1, out1, sync_)
                  IN  IF IsRaise(out2) THEN Raise
                      ELSE GenerateItems(tree, i + 1, out2.items, sync_)
             ELSE LET records == SelectSeq(sub_node.items, LAMBDA info : info.cls = "RecordInfo")
                      methods == SelectSeq(sub_node.items, LAMBDA info : info.cls = "MethodInfo")
                      block == _get_namespace_methods_block(methods, sync_)
                  IN  IF IsRaise(block) THEN Raise
                      ELSE GenerateItems(tree, i + 1,
                               out \o <<_get_namespace_class_def(node_name),
                                        _get_namespace_records_block(records),
                                        block>>, sync_)

_generate_namespace_in_output(tree, out, sync_) == GenerateItems(tree, 1, out, sync_)

\* ------------------------------------------------------------------------
\* Driver: generate_namespaces

MaxLexicons == 3

atproto == <<97, 116, 112, 114, 111, 116, 111>>       \* "atproto"

LexiconIds ==
    {<<com, atproto, repo, getRepo>>, <<com, atproto, repo, getBlob>>,
     <<com, atproto, admin, getRepo>>, <<bsky, repo, Mute>>}

RecordDef == [cls |-> "LexRecord", type |-> "record"]

QueryDef ==
    [cls |-> "LexXrpcQuery", type |-> "query",
     parameters |-> [cls |-> "LexXrpcParameters", required |-> PyList(<<id_>>)],
     input |-> PyNone,
     output |-> [cls |-> "LexXrpcBody", schema |-> [cls |-> "LexRef"]]]

ProcedureDef ==
    [cls |-> "LexXrpcProcedure", type |-> "procedure",
     parameters |-> PyNone,
     input |-> [cls |-> "LexXrpcBody", schema |-> [cls |-> "LexObject", required |-> PyNone]],
     output |-> PyNone]

MalformedDef ==
    [cls |-> "LexXrpcProcedure", type |-> "procedure",
     parameters |-> PyNone,
     input |-> [cls |-> "LexXrpcBody", schema |-> [cls |-> "LexRef"]],
     output |-> PyNone]

DriverDefinitions == {RecordDef, QueryDef, ProcedureDef, MalformedDef}

Lexicons == {[id |-> n, definition |-> d] : n \in LexiconIds, d \in DriverDefinitions}

\* the collections build_namespaces may read: no identifier occurs twice
LexiconCollections ==
    UNION {{s \in [1..k -> Lexicons] : \A i, j \in 1..k : i < j => s[i].id # s[j].id} :
           k \in 0..MaxLexicons}

_NAMESPACES_SYNC_FILENAME == "sync_ns.py"

_NAMESPACES_ASYNC_FILENAME == "async_ns.py"

Filenames == {_NAMESPACES_SYNC_FILENAME, _NAMESPACES_ASYNC_FILENAME}

\* a file as the run found it, and a file a failed write left half-written
OldContent == [cls |-> "old"]

PartialContent == [cls |-> "partial"]

InitialFiles == [f \in Filenames |-> [content |-> OldContent, formatted |-> FALSE]]

\* mutant: both passes write the same file
filename_AlwaysSync == _NAMESPACES_SYNC_FILENAME

filename == IF sync THEN _NAMESPACES_SYNC_FILENAME ELSE _NAMESPACES_ASYNC_FILENAME

\* join_code([_get_namespace_imports(), *generated_code_lines_buffer])
code == [cls |-> "code", imports |-> _get_namespace_imports, lines |-> output]

MethodIdle ==
    /\ method_info = NoText
    /\ m_sync = TRUE
    /\ signature = NoText
    /\ body = NoText
    /\ m_pc = "idle"

DriverIdle ==
    /\ pc = "idle"
    /\ lexicons = <<>>
    /\ namespace_tree = EmptyDict
    /\ sync = TRUE
    /\ output = <<>>
    /\ files = InitialFiles
    /\ steps = <<>>
    /\ error = ""

Init ==
    /\ pc = "build"
    /\ lexicons = <<>>
    /\ namespace_tree = EmptyDict
    /\ sync = TRUE
    /\ output = <<>>
    /\ files = InitialFiles
    /\ steps = <<>>
    /\ error = ""
    /\ MethodIdle

\* line 259, and the first iteration of the loop of line 261 begins
BuildNamespaces ==
    /\ pc = "build"
    /\ \E lexs \in LexiconCollections :
        /\ lexicons' = lexs
        /\ namespace_tree' = build_namespaces(lexs)
    /\ sync' = TRUE
    /\ output' = <<>>
    /\ pc' = "generate"
    /\ steps' = Append(steps, <<"build_namespaces", "">>)
    /\ UNCHANGED <<files, error>>
    /\ UNCHANGED mvars

\* lines 262-263; the exception is the ValueError of line 179, or the
\* one line 173 raises first on a schema class without `required`
Generate ==
    /\ pc = "generate"
    /\ LET result == _generate_namespace_in_output(namespace_tree, <<>>, sync) IN
       IF IsRaise(result)
       THEN /\ pc' = "failed"
            /\ error' = "SchemaError"
            /\ UNCHANGED <<output, steps>>
       ELSE /\ pc' = "write"
            /\ output' = result.items
            /\ steps' = Append(steps, <<"_generate_namespace_in_output", filename>>)
            /\ UNCHANGED error
    /\ UNCHANGED <<lexicons, namespace_tree, sync, files>>
    /\ UNCHANGED mvars

\* lines 265-270
WriteCode ==
    /\ pc = "write"
    /\ files' = [files EXCEPT ![filename] = [content |-> code, formatted |-> FALSE]]
    /\ steps' = Append(steps, <<"write_code", filename>>)
    /\ pc' = "format"
    /\ UNCHANGED <<lexicons, namespace_tree, sync, output, error>>
    /\ UNCHANGED mvars

\* line 270 raising: the file is as it was or half-written
WriteCodeFails ==
    /\ pc = "write"
    /\ \E c \in {files[filename].content, PartialContent} :
        files' = [files EXCEPT ![filename] = [content |-> c, formatted |-> IF c = PartialContent THEN FALSE ELSE @.formatted]]
    /\ error' = "OSError"
    /\ pc' = "failed"
    /\ UNCHANGED <<lexicons, namespace_tree, sync, output, steps>>
    /\ UNCHANGED mvars

\* line 271, then the next iteration of the loop of line 261 or its end
FormatCode ==
    /\ pc = "format"
    /\ files' = [files EXCEPT ![filename].formatted = TRUE]
    /\ steps' = Append(steps, <<"format_code", filename>>)
    /\ IF sync
       THEN /\ sync' = FALSE
            /\ output' = <<>>
            /\ pc' = "generate"
       ELSE /\ pc' = "done"
            /\ UNCHANGED <<sync, output>>
    /\ UNCHANGED <<lexicons, namespace_tree, error>>
    /\ UNCHANGED mvars

\* line 271 raising
FormatCodeFails ==
    /\ pc = "format"
    /\ error' = "FormatError"
    /\ pc' = "failed"
    /\ UNCHANGED <<lexicons, namespace_tree, sync, output, files, steps>>
    /\ UNCHANGED mvars

Next ==
    \/ BuildNamespaces
    \/ Generate
    \/ WriteCode
    \/ WriteCodeFails
    \/ FormatCode
    \/ FormatCodeFails

Spec == Init /\ [][Next]_vars

\* ------------------------------------------------------------------------
\* The method emitter on one descriptor: the loop body of
\* _get_namespace_methods_block, lines 221 and 222

InitMethod ==
    /\ method_info \in MethodInfos
    /\ m_sync \in BOOLEAN
    /\ signature = NoText
    /\ body = NoText
    /\ m_pc = "signature"
    /\ DriverIdle

EmitSignature ==
    /\ m_pc = "signature"
    /\ signature' = _get_namespace_method_signature(method_info, m_sync)
    /\ m_pc' = IF IsRaise(signature') THEN "raised" ELSE "body"
    /\ UNCHANGED <<method_info, m_sync, body>>
    /\ UNCHANGED dvars

EmitBody ==
    /\ m_pc = "body"
    /\ body' = _get_namespace_method_body(method_info, m_sync)
    /\ m_pc' = "done"
    /\ UNCHANGED <<method_info, m_sync, signature>>
    /\ UNCHANGED dvars

NextMethod == EmitSignature \/ EmitBody

SpecMethod == InitMethod /\ [][NextMethod]_vars

\* ------------------------------------------------------------------------
\* Properties of the method emitter (checked under SpecMethod)

SigArgs(n) == {i \in DOMAIN signature.args : signature.args[i].name = n}

SigDeclares(n) == SigArgs(n) # {}

SigArg(n) == signature.args[CHOOSE i \in SigArgs(n) : TRUE]

NoRequiredFields(shape) == shape.required = PyNone \/ shape.required = PyList(<<>>)

ArgIsOptional(arg) == arg.annotation.optional /\ arg.default = " = None"

ArgIsRequired(arg) == ~arg.annotation.optional /\ arg.default = ""

DeclaresInput(definition) == definition.type = "procedure" /\ definition.input # PyNone

\* C1: the emitted body calls invoke_query for a query and invoke_procedure
\* for a procedure, passes the method's full identifier first, passes
\* params=params exactly when the signature declares params and data=data
\* exactly when the signature declares data
C1_BodyPassesDeclaredArgs ==
    m_pc = "done" =>
        /\ body.method_name =
               (IF method_info.definition.type = "procedure" THEN "invoke_procedure" ELSE "invoke_query")
        /\ body.nsid = method_info.nsid
        /\ ("params=params" \in Range(body.kwargs)) <=> SigDeclares("params")
        /\ ("data=data" \in Range(body.kwargs)) <=> SigDeclares("data")

\* C2: in every emitted signature params is present iff the definition has a
\* parameters shape and is Optional with default None iff that shape has no
\* required fields; data is present iff the definition is a procedure with
\* an input; with an object schema data follows the same rule and is typed
\* dict-or-model; with no schema data is required and typed as the model
\* alone, without default
C2_SignatureParamsAndData ==
    m_pc \in {"body", "done"} =>
        LET definition == method_info.definition IN
        /\ SigDeclares("params") <=> definition.parameters # PyNone
        /\ Cardinality(SigArgs("params")) <= 1
        /\ SigDeclares("params") =>
            /\ SigArg("params").annotation.model = [fn |-> "get_params_model_name", of |-> method_info.name]
            /\ SigArg("params").annotation.union
            /\ IF NoRequiredFields(definition.parameters)
               THEN ArgIsOptional(SigArg("params"))
               ELSE ArgIsRequired(SigArg("params"))
        /\ SigDeclares("data") <=> DeclaresInput(definition)
        /\ Cardinality(SigArgs("data")) <= 1
        /\ SigDeclares("data") =>
            /\ SigArg("data").annotation.model = [fn |-> "get_data_model_name", of |-> method_info.name]
            /\ IF definition.input.schema = PyNone
               THEN ~SigArg("data").annotation.union /\ ArgIsRequired(SigArg("data"))
               ELSE /\ definition.input.schema.cls = "LexObject"
                    /\ SigArg("data").annotation.union
                    /\ IF NoRequiredFields(definition.input.schema)
                       THEN ArgIsOptional(SigArg("data"))
                       ELSE ArgIsRequired(SigArg("data"))

\* an optional params next to an input without schema: a signature with
\* both kinds of data typing rules at work
C2_Witness ==
    /\ m_pc = "done"
    /\ SigDeclares("params") /\ ArgIsOptional(SigArg("params"))
    /\ method_info.definition.parameters.required = PyList(<<>>)
    /\ SigDeclares("data") /\ ~SigArg("data").annotation.union
    /\ method_info.definition.input.schema = PyNone

\* C4: the parameter list starts with self, no required parameter follows
\* an optional one, and among parameters of the same optionality params
\* precedes data
C4_SignatureArgOrder ==
    m_pc \in {"body", "done"} =>
        LET args == signature.args IN
        /\ Len(args) >= 1
        /\ args[1] = SelfArg
        /\ \A i \in 2..Len(args) : args[i].name # "self"
        /\ \A i, j \in 2..Len(args) :
            i < j => ~(ArgIsOptional(args[i]) /\ ~ArgIsOptional(args[j]))
        /\ \A i, j \in 2..Len(args) :
            (/\ args[i].name = "params"
             /\ args[j].name = "data"
             /\ ArgIsOptional(args[i]) = ArgIsOptional(args[j])) => i < j

\* an optional params detected before a required data: the emitted order is
\* not the detection order
C4_Witness ==
    /\ m_pc = "done"
    /\ Len(signature.args) = 3
    /\ signature.args[2].name = "data" /\ ArgIsRequired(signature.args[2])
    /\ signature.args[3].name = "params" /\ ArgIsOptional(signature.args[3])

\* C5: the declared return type is int iff the definition has no output,
\* otherwise the response model name, with suffix Ref iff the output schema
\* is a type reference; the body converts the response into the same type
C5_ReturnType ==
    m_pc = "done" =>
        LET definition == method_info.definition IN
        /\ signature.return_type.base = "int" <=> definition.output = PyNone
        /\ definition.output = PyNone => signature.return_type = [base |-> "int", of |-> <<>>, suffix |-> ""]
        /\ definition.output # PyNone =>
            /\ signature.return_type.base = "models.get_response_model_name"
            /\ signature.return_type.of = method_info.name
            /\ signature.return_type.suffix \in {"", "Ref"}
            /\ signature.return_type.suffix = "Ref" <=>
                   (definition.output.schema # PyNone /\ definition.output.schema.cls = "LexRef")
        /\ body.return_type = signature.return_type

C5_Witness ==
    /\ m_pc = "done"
    /\ method_info.definition.output # PyNone
    /\ method_info.definition.output.schema = [cls |-> "LexRef"]
    /\ signature.return_type.suffix = "Ref"
    /\ body.return_type.suffix = "Ref"

\* ------------------------------------------------------------------------
\* Properties of the tree walk and the driver (checked under Spec)

\* a procedure whose input schema is present and is not a structured object
Malformed(lexicon) ==
    /\ lexicon.definition.type = "procedure"
    /\ lexicon.definition.input # PyNone
    /\ lexicon.definition.input.schema # PyNone
    /\ lexicon.definition.input.schema.cls # "LexObject"

IsMethod(lexicon) == lexicon.definition.type \in {"query", "procedure"}

HasMalformed == \E i \in DOMAIN lexicons : Malformed(lexicons[i])

Fields(block) == {block.lines[i].field : i \in DOMAIN block.lines}

StrictlyAscending(names) == \A i, j \in DOMAIN names : i < j => StrLess(names[i], names[j])

MethodNamesOf(block) ==
    LET sigs == SelectSeq(block.lines, LAMBDA l : l.cls = "signature")
    IN  [i \in DOMAIN sigs |-> sigs[i].name.of]

\* the permutations of the lexicon collection that was read
Reorderings ==
    {s \in [DOMAIN lexicons -> Range(lexicons)] : Range(s) = Range(lexicons)}

ExpectedSteps ==
    <<<<"build_namespaces", "">>,
      <<"_generate_namespace_in_output", "sync_ns.py">>,
      <<"write_code", "sync_ns.py">>,
      <<"format_code", "sync_ns.py">>,
      <<"_generate_namespace_in_output", "async_ns.py">>,
      <<"write_code", "async_ns.py">>,
      <<"format_code", "async_ns.py">>>>

Written(f) == <<"write_code", f>> \in Range(steps)

Formatted(f) == <<"format_code", f>> \in Range(steps)

C3_NeverPastMalformed ==
    HasMalformed =>
        /\ pc \in {"generate", "failed"}
        /\ sync
        /\ output = <<>>
        /\ pc = "failed" => error = "SchemaError"

C3_MalformedRaises ==
    (pc = "generate" /\ HasMalformed) => (pc' = "failed" /\ error' = "SchemaError" /\ output' = <<>>)

\* C3: when a procedure of the tree has an input schema that is present and
\* is not a structured object, the emission raises and the run ends in the
\* error state: no output is produced with the method left out, the
\* remaining methods are not emitted, normal completion is never reached
C3_MalformedSchemaAborts == []C3_NeverPastMalformed /\ [][C3_MalformedRaises]_vars

\* the run failed although a well-formed method came before the malformed
\* one and another lexicon after it
C3_Witness ==
    /\ pc = "failed"
    /\ error = "SchemaError"
    /\ Len(lexicons) = 3
    /\ IsMethod(lexicons[1]) /\ ~Malformed(lexicons[1])
    /\ Malformed(lexicons[2])
    /\ IsMethod(lexicons[3]) /\ ~Malformed(lexicons[3])

C7_AscendingOrder ==
    \A i \in DOMAIN output :
        /\ output[i].cls \in {"sub_namespaces_block", "post_init"} =>
            StrictlyAscending([l \in DOMAIN output[i].lines |-> output[i].lines[l].field])
        /\ output[i].cls = "methods_block" => StrictlyAscending(MethodNamesOf(output[i]))

\* a finished run on a collection read in descending order: repo before
\* admin under com.atproto, getRepo before getBlob under repo
C7_Witness ==
    /\ pc = "done"
    /\ Len(lexicons) = 3
    /\ lexicons[1].id = <<com, atproto, repo, getRepo>> /\ IsMethod(lexicons[1])
    /\ lexicons[2].id = <<com, atproto, repo, getBlob>> /\ IsMethod(lexicons[2])
    /\ lexicons[3].id = <<com, atproto, admin, getRepo>>
    /\ \E i \in DOMAIN output :
        output[i].cls = "methods_block" /\ Len(MethodNamesOf(output[i])) = 2

\* C8: the emitted sequence of classes, fields and methods is the same for
\* every insertion order of the same lexicons
C8_OutputIndependentOfInsertionOrder ==
    pc = "write" =>
        \A s \in Reorderings :
            _generate_namespace_in_output(build_namespaces(s), <<>>, sync) = PyList(output)

C9_StepOrder ==
    /\ Len(steps) <= Len(ExpectedSteps)
    /\ steps = SubSeq(ExpectedSteps, 1, Len(steps))
    /\ pc = "done" <=> steps = ExpectedSteps
    /\ \A f \in Filenames :
        /\ files[f].formatted => (Written(f) /\ Formatted(f))
        /\ Written(f) =>
            /\ files[f].content.cls = "code"
            /\ files[f].content.lines =
                   _generate_namespace_in_output(namespace_tree, <<>>, f = "sync_ns.py").items
        /\ files[f].content.cls = "code" => Written(f)
    /\ files["async_ns.py"].content # OldContent =>
           (Written("sync_ns.py") /\ files["sync_ns.py"].formatted)
    /\ pc = "done" => \A f \in Filenames : files[f].content.cls = "code" /\ files[f].formatted
    /\ pc = "done" =>
           Cardinality({i \in DOMAIN steps : steps[i][1] = "write_code"}) = 2
    /\ pc = "failed" <=> error # ""

C9_NoStepAfterFailure == pc # "failed"

C9_TreeUnmodified == pc # "build" => namespace_tree' = namespace_tree

\* C9: a run builds the tree once, then emits, writes and formats the sync
\* output, then emits, writes and formats the async output from the same
\* tree; a file is formatted only after it was written, a successful run
\* writes exactly two files, and a failure at any step ends the run with
\* the files written so far left in place
C9_DriverOrder ==
    /\ []C9_StepOrder
    /\ [][C9_NoStepAfterFailure]_vars
    /\ [][C9_TreeUnmodified]_vars

\* a finished run over a tree that holds at least two methods
C9_Witness ==
    /\ pc = "done"
    /\ Len(lexicons) >= 2
    /\ \A i \in DOMAIN lexicons : IsMethod(lexicons[i])
    /\ files["sync_ns.py"].content # files["async_ns.py"].content

\* C10: a run that fails with the malformed-schema error fails during the
\* sync emission pass, before any write or format step: both files are as
\* they were before the run
C10_MalformedWritesNothing ==
    (pc = "failed" /\ error = "SchemaError") =>
        /\ sync
        /\ files = InitialFiles
        /\ steps = <<<<"build_namespaces", "">>>>

\* the malformed method is the last one the sync pass reaches
C10_Witness ==
    /\ pc = "failed"
    /\ error = "SchemaError"
    /\ Len(lexicons) = 3
    /\ \A i \in 1..2 : IsMethod(lexicons[i]) /\ ~Malformed(lexicons[i])
    /\ lexicons[1].id = <<bsky, repo, Mute>>
    /\ lexicons[2].id = <<com, atproto, admin, getRepo>>
    /\ lexicons[3].id = <<com, atproto, repo, getRepo>>
    /\ Malformed(lexicons[3])

====
